---- MODULE Spec2Model ----
(***************************************************************************)
(* cssSelectorBuilder of src/src/06-objects-tasks.js as a state machine.   *)
(* The heap holds the facade (object 0) and every object made by a spread  *)
(* copy of it.  Strings are sequences of one-character strings.            *)
(***************************************************************************)
EXTENDS Integers, Sequences, FiniteSets, TLC

\* ---- bounds ----
\* objects besides the facade; calls per run of Spec; calls per run of SpecDeep
MaxObjs == 3
MaxCalls == 3
MaxDeepCalls == 4

\* ---- inputs ----
Values == {<<"a">>, <<"b">>}
DeepValues == {<<"a">>}
Combinators == {<<"+">>, <<"~">>}
Parts == {"element", "id", "class", "attr", "pseudoClass", "pseudoElement"}

\* the facade's address; None stands for "nothing returned" (a throw)
Facade == 0
None == 0 - 1

VARIABLES heap, chain, last, calls
vars == <<heap, chain, last, calls>>

\* ---- the object literal ----
cssSelectorBuilder == [selectorStr |-> << >>, order |-> 0, isCB |-> FALSE]

priorityDictionary ==
  [element |-> 1, id |-> 2, class |-> 3, attr |-> 4, pseudoClass |-> 5, pseudoElement |-> 6]

\* mutant: pseudo-element left out of the unique positions
uniquePositions_short == {1, 2}

uniquePositions == {1, 2, 6}

errors == [occurenceError |-> "occurenceError", orderError |-> "orderError"]

\* ---- the heap ----
NewId(h) == Cardinality(DOMAIN h)

Alloc(h, rec) ==
  [i \in (DOMAIN h) \cup {NewId(h)} |-> IF i = NewId(h) THEN rec ELSE h[i]]

\* ---- checks ----
\* mutant: the occurrence check always passes
checkOccurences_off(h, this, order) == TRUE

checkOccurences(h, this, order) ==
  IF h[this].order = order /\ order \in uniquePositions THEN FALSE ELSE TRUE

\* mutant: an equal order is refused too
checkOrder_ge(h, this, order) ==
  IF h[this].order >= order THEN FALSE ELSE TRUE

\* mutant: the order check always passes
checkOrder_off(h, this, order) == TRUE

checkOrder(h, this, order) ==
  IF h[this].order > order THEN FALSE ELSE TRUE

checkCorrectness(h, this, currOrder) ==
  LET flags == [orderCorrect |-> checkOrder(h, this, currOrder),
                occurenceCorrect |-> checkOccurences(h, this, currOrder)]
  IN IF ~flags.orderCorrect THEN errors.orderError
     ELSE IF ~flags.occurenceCorrect THEN errors.occurenceError
     ELSE "ok"

\* mutant: the part is put in front of the string
addPart_prepend(h, this, part, partValue, initCB) ==
  LET order == priorityDictionary[part]
      thrown == checkCorrectness(h, this, order)
  IN IF thrown # "ok"
     THEN [heap |-> h, out |-> thrown, obj |-> None]
     ELSE [heap |-> [h EXCEPT ![initCB].selectorStr = partValue \o @,
                              ![initCB].order = order],
           out |-> "ok", obj |-> initCB]

\* mutant: the part is appended to this, not to params.initCB
addPart_this(h, this, part, partValue, initCB) ==
  LET order == priorityDictionary[part]
      thrown == checkCorrectness(h, this, order)
  IN IF thrown # "ok"
     THEN [heap |-> h, out |-> thrown, obj |-> None]
     ELSE [heap |-> [h EXCEPT ![this].selectorStr = @ \o partValue,
                              ![this].order = order],
           out |-> "ok", obj |-> this]

\* mutant: the order of the appended part is not recorded
addPart_noorder(h, this, part, partValue, initCB) ==
  LET order == priorityDictionary[part]
      thrown == checkCorrectness(h, this, order)
  IN IF thrown # "ok"
     THEN [heap |-> h, out |-> thrown, obj |-> None]
     ELSE [heap |-> [h EXCEPT ![initCB].selectorStr = @ \o partValue],
           out |-> "ok", obj |-> initCB]

\* mutant: the part is appended before the check
addPart_eager(h, this, part, partValue, initCB) ==
  LET order == priorityDictionary[part]
      thrown == checkCorrectness(h, this, order)
      h1 == [h EXCEPT ![initCB].selectorStr = @ \o partValue, ![initCB].order = order]
  IN IF thrown # "ok"
     THEN [heap |-> h1, out |-> thrown, obj |-> None]
     ELSE [heap |-> h1, out |-> "ok", obj |-> initCB]

\* ---- addPart: check against this, then append to params.initCB ----
addPart(h, this, part, partValue, initCB) ==
  LET order == priorityDictionary[part]
      thrown == checkCorrectness(h, this, order)
  IN IF thrown # "ok"
     THEN [heap |-> h, out |-> thrown, obj |-> None]
     ELSE [heap |-> [h EXCEPT ![initCB].selectorStr = @ \o partValue,
                              ![initCB].order = order],
           out |-> "ok", obj |-> initCB]

\* ---- the body shared by the six fragment methods ----
\* mutant: the facade itself is used, not a copy
initCBOf_this(h, this) == this

initCBOf(h, this) == IF ~h[this].isCB THEN NewId(h) ELSE this

heapWithInitCB(h, this) ==
  IF ~h[this].isCB THEN Alloc(h, [h[Facade] EXCEPT !.isCB = TRUE]) ELSE h

fragment(h, this, part, partValue) ==
  LET r == addPart(heapWithInitCB(h, this), this, part, partValue, initCBOf(h, this))
  IN IF r.out = "ok" THEN r
     ELSE [r EXCEPT !.heap = [i \in DOMAIN h |-> r.heap[i]]]

element(h, this, value) == fragment(h, this, "element", value)
id(h, this, value) == fragment(h, this, "id", <<"#">> \o value)
class(h, this, value) == fragment(h, this, "class", <<".">> \o value)
attr(h, this, value) == fragment(h, this, "attr", <<"[">> \o value \o <<"]">>)
pseudoClass(h, this, value) == fragment(h, this, "pseudoClass", <<":">> \o value)
pseudoElement(h, this, value) == fragment(h, this, "pseudoElement", <<":", ":">> \o value)

\* ---- render ----
\* mutant: the string is cleared, the order is kept
clearString_keepOrder(h, this) ==
  [h EXCEPT ![this].selectorStr = << >>]

\* mutant: nothing is cleared
clearString_keep(h, this) == h

clearString(h, this) ==
  [h EXCEPT ![this].selectorStr = << >>, ![this].order = 0]

\* mutant: the string is returned and not cleared
stringify_peek(h, this) ==
  [heap |-> h, out |-> "ok", str |-> h[this].selectorStr]

\* mutant: an empty selector is refused
stringify_strict(h, this) ==
  LET currStr == h[this].selectorStr
  IN IF currStr = << >>
     THEN [heap |-> h, out |-> errors.orderError, str |-> << >>]
     ELSE [heap |-> clearString(h, this), out |-> "ok", str |-> currStr]

stringify(h, this) ==
  LET currStr == h[this].selectorStr
  IN [heap |-> clearString(h, this), out |-> "ok", str |-> currStr]

\* mutant: the result is a copy of the right operand, not of the facade
combine_copyOperand(h, selector1, combinator, selector2) ==
  LET closureBuilder == NewId(h)
      r1 == stringify(h, selector1)
      r2 == stringify(r1.heap, selector2)
      copy == [h[selector2] EXCEPT !.selectorStr =
                 r1.str \o <<" ">> \o combinator \o <<" ">> \o r2.str]
  IN [heap |-> Alloc(r2.heap, copy), out |-> "ok", obj |-> closureBuilder]

\* mutant: the two sides are swapped
combine_rev(h, selector1, combinator, selector2) ==
  LET closureBuilder == NewId(h)
      r1 == stringify(h, selector1)
      r2 == stringify(r1.heap, selector2)
      copy == [h[Facade] EXCEPT !.selectorStr =
                 r2.str \o <<" ">> \o combinator \o <<" ">> \o r1.str]
  IN [heap |-> Alloc(r2.heap, copy), out |-> "ok", obj |-> closureBuilder]

\* the template literal calls selector1.stringify() first, then
\* selector2.stringify(); a throw of either would leave combine as a throw
combine(h, selector1, combinator, selector2) ==
  LET closureBuilder == NewId(h)
      r1 == stringify(h, selector1)
      r2 == stringify(r1.heap, selector2)
      copy == [h[Facade] EXCEPT !.selectorStr =
                 r1.str \o <<" ">> \o combinator \o <<" ">> \o r2.str]
  IN IF r1.out # "ok" THEN [heap |-> r1.heap, out |-> r1.out, obj |-> None]
     ELSE IF r2.out # "ok" THEN [heap |-> r2.heap, out |-> r2.out, obj |-> None]
     ELSE [heap |-> Alloc(r2.heap, copy), out |-> "ok", obj |-> closureBuilder]

\* ---- the record of calls made through each object since it was made or
\* ---- rendered (history, not program state) ----
Token(part, value) == [part |-> part, value |-> value]

ChainAfterFragment(r, part, value) ==
  [i \in DOMAIN r.heap |->
     IF r.out = "ok" /\ i = r.obj
     THEN (IF i \in DOMAIN chain THEN chain[i] ELSE << >>) \o <<Token(part, value)>>
     ELSE IF i \in DOMAIN chain THEN chain[i] ELSE << >>]

ChainAfterCombine(r, s1, c, s2) ==
  [i \in DOMAIN r.heap |->
     IF r.out # "ok" THEN chain[i]
     ELSE IF i = r.obj
     THEN chain[s1] \o <<Token("combinator", c)>> \o (IF s2 = s1 THEN << >> ELSE chain[s2])
     ELSE IF i = s1 \/ i = s2 THEN << >>
     ELSE chain[i]]

\* ---- actions ----
\* V: the values a caller passes; n: the number of calls of a run
Init ==
  /\ heap = [i \in {Facade} |-> cssSelectorBuilder]
  /\ chain = [i \in {Facade} |-> << >>]
  /\ last = [op |-> "none", this |-> None, value |-> << >>, s1 |-> None, s2 |-> None,
             out |-> "ok", obj |-> None, str |-> << >>]
  /\ calls = 0

FragmentCall(n, part, this, value, r) ==
  /\ calls < n
  /\ Cardinality(DOMAIN r.heap) <= MaxObjs + 1
  /\ heap' = r.heap
  /\ chain' = ChainAfterFragment(r, part, value)
  /\ last' = [op |-> part, this |-> this, value |-> value, s1 |-> None, s2 |-> None,
              out |-> r.out, obj |-> r.obj, str |-> << >>]
  /\ calls' = calls + 1

Element(V, n) == \E this \in DOMAIN heap, value \in V :
  FragmentCall(n, "element", this, value, element(heap, this, value))

Id(V, n) == \E this \in DOMAIN heap, value \in V :
  FragmentCall(n, "id", this, value, id(heap, this, value))

Class(V, n) == \E this \in DOMAIN heap, value \in V :
  FragmentCall(n, "class", this, value, class(heap, this, value))

Attr(V, n) == \E this \in DOMAIN heap, value \in V :
  FragmentCall(n, "attr", this, value, attr(heap, this, value))

PseudoClass(V, n) == \E this \in DOMAIN heap, value \in V :
  FragmentCall(n, "pseudoClass", this, value, pseudoClass(heap, this, value))

PseudoElement(V, n) == \E this \in DOMAIN heap, value \in V :
  FragmentCall(n, "pseudoElement", this, value, pseudoElement(heap, this, value))

Stringify(n) == \E this \in DOMAIN heap :
  LET r == stringify(heap, this)
  IN /\ calls < n
     /\ heap' = r.heap
     /\ chain' = IF r.out = "ok" THEN [chain EXCEPT ![this] = << >>] ELSE chain
     /\ last' = [op |-> "stringify", this |-> this, value |-> << >>, s1 |-> None,
                 s2 |-> None, out |-> r.out, obj |-> None, str |-> r.str]
     /\ calls' = calls + 1

Combine(n) == \E s1 \in DOMAIN heap, s2 \in DOMAIN heap, c \in Combinators :
  LET r == combine(heap, s1, c, s2)
  IN /\ calls < n
     /\ Cardinality(DOMAIN r.heap) <= MaxObjs + 1
     /\ heap' = r.heap
     /\ chain' = ChainAfterCombine(r, s1, c, s2)
     /\ last' = [op |-> "combine", this |-> Facade, value |-> c, s1 |-> s1, s2 |-> s2,
                 out |-> r.out, obj |-> r.obj, str |-> << >>]
     /\ calls' = calls + 1

Next ==
  \/ Element(Values, MaxCalls)
  \/ Id(Values, MaxCalls)
  \/ Class(Values, MaxCalls)
  \/ Attr(Values, MaxCalls)
  \/ PseudoClass(Values, MaxCalls)
  \/ PseudoElement(Values, MaxCalls)
  \/ Stringify(MaxCalls)
  \/ Combine(MaxCalls)

Spec == Init /\ [][Next]_vars

\* the same operations, one value, one call more
NextDeep ==
  \/ Element(DeepValues, MaxDeepCalls)
  \/ Id(DeepValues, MaxDeepCalls)
  \/ Class(DeepValues, MaxDeepCalls)
  \/ Attr(DeepValues, MaxDeepCalls)
  \/ PseudoClass(DeepValues, MaxDeepCalls)
  \/ PseudoElement(DeepValues, MaxDeepCalls)
  \/ Stringify(MaxDeepCalls)
  \/ Combine(MaxDeepCalls)

SpecDeep == Init /\ [][NextDeep]_vars

\* ---- vocabulary of the properties ----
SingletonParts == {"element", "id", "pseudoElement"}
RepeatableParts == {"class", "attr", "pseudoClass"}
Letters == {"a", "b"}

Rank(part) ==
  CASE part = "element" -> 1
    [] part = "id" -> 2
    [] part = "class" -> 3
    [] part = "attr" -> 4
    [] part = "pseudoClass" -> 5
    [] part = "pseudoElement" -> 6
    [] OTHER -> 0

Rendered(tok) ==
  CASE tok.part = "element" -> tok.value
    [] tok.part = "id" -> <<"#">> \o tok.value
    [] tok.part = "class" -> <<".">> \o tok.value
    [] tok.part = "attr" -> <<"[">> \o tok.value \o <<"]">>
    [] tok.part = "pseudoClass" -> <<":">> \o tok.value
    [] tok.part = "pseudoElement" -> <<":", ":">> \o tok.value
    [] tok.part = "combinator" -> <<" ">> \o tok.value \o <<" ">>

RECURSIVE RenderAll(_)
RenderAll(s) == IF s = << >> THEN << >> ELSE Rendered(Head(s)) \o RenderAll(Tail(s))

\* part may follow the fragments of s: higher rank, or the same repeatable rank
ValidAppend(s, part) ==
  \/ s = << >>
  \/ Rank(s[Len(s)].part) < Rank(part)
  \/ Rank(s[Len(s)].part) = Rank(part) /\ part \in RepeatableParts

CountPart(s, part) == Cardinality({k \in DOMAIN s : s[k].part = part})

Cleared(h, i) == h[i].selectorStr = << >> /\ h[i].order = 0

\* C1: a fragment call that respects rank order and singleton cardinality
\* succeeds and leaves the instance's string equal to the rendered fragments of
\* its chain in call order, without separators; a chain started on the facade
\* holds the first fragment alone; stringify() returns that concatenation.
C1_Concatenation ==
  [][/\ (last'.op \in Parts /\ heap[last'.this].isCB
           /\ ValidAppend(chain[last'.this], last'.op))
        => /\ last'.out = "ok"
           /\ heap'[last'.obj].selectorStr =
                RenderAll(chain[last'.this] \o <<Token(last'.op, last'.value)>>)
     /\ (last'.op \in Parts /\ last'.this = Facade)
        => /\ last'.out = "ok"
           /\ heap'[last'.obj].selectorStr = Rendered(Token(last'.op, last'.value))
     /\ (last'.op = "stringify" /\ heap[last'.this].isCB)
        => last'.str = RenderAll(chain[last'.this])
    ]_vars

C1_Witness ==
  /\ last.op = "stringify"
  /\ last.str = <<".", "b", ".", "a">>

\* C2: on an instance made by fragment calls, a fragment call whose rank is lower
\* than the rank of any fragment appended since the last render raises the order
\* error, wherever in the chain that fragment is.
C2_LowerRankRaises ==
  [][(/\ last'.op \in Parts
      /\ heap[last'.this].isCB
      /\ \E k \in DOMAIN chain[last'.this] :
           Rank(last'.op) < Rank(chain[last'.this][k].part))
     => last'.out = "orderError"
    ]_vars

C2_Witness ==
  /\ last.out = "orderError"
  /\ Len(chain[last.this]) = 2
  /\ Rank(last.op) < Rank(chain[last.this][1].part)
  /\ Rank(chain[last.this][1].part) < Rank(chain[last.this][2].part)

\* C3: when a fragment call succeeded and the next call is the same operation on
\* the instance it returned, a singleton kind raises the occurrence error and a
\* repeatable kind succeeds, whatever the values.
C3_SameKindTwice ==
  [][(/\ last.op \in Parts
      /\ last.out = "ok"
      /\ last'.op = last.op
      /\ last'.this = last.obj)
     => /\ last.op \in SingletonParts => last'.out = "occurenceError"
        /\ last.op \in RepeatableParts => last'.out = "ok"
    ]_vars

C3_Witness ==
  /\ last.out = "occurenceError"
  /\ Len(chain[last.this]) = 1
  /\ chain[last.this][1].part = last.op
  /\ chain[last.this][1].value # last.value

\* C4: an instance made by fragment calls holds at most one element, one id and
\* one pseudo-element fragment; with one-letter values its string has at most one
\* bare letter, one "#" and one "::".
HashCount(t) == Cardinality({k \in DOMAIN t : t[k] = "#"})

DoubleColonCount(t) ==
  Cardinality({k \in 1..(Len(t) - 1) : t[k] = ":" /\ t[k + 1] = ":"})

BareCount(t) ==
  Cardinality({k \in DOMAIN t :
    t[k] \in Letters /\ (k = 1 \/ t[k - 1] \in Letters \cup {"]"})})

C4_SingletonsOnce ==
  \A i \in DOMAIN heap :
    heap[i].isCB =>
      /\ \A p \in SingletonParts : CountPart(chain[i], p) <= 1
      /\ BareCount(heap[i].selectorStr) <= 1
      /\ HashCount(heap[i].selectorStr) <= 1
      /\ DoubleColonCount(heap[i].selectorStr) <= 1

C4_Witness ==
  \E i \in DOMAIN heap :
    /\ heap[i].isCB
    /\ \A p \in SingletonParts : CountPart(chain[i], p) = 1
    /\ heap[i].selectorStr = <<"a", "#", "b", ":", ":", "a">>

\* C5: a call changes no object but its receiver or operands; a fragment call on
\* the facade returns a new object holding that fragment alone; a fragment call on
\* an instance succeeds or fails by that instance's own chain.
Touched(l) == IF l.op = "combine" THEN {l.s1, l.s2} ELSE {l.this}

C5_Isolation ==
  [][/\ \A j \in DOMAIN heap \ Touched(last') : heap'[j] = heap[j]
     /\ (last'.op \in Parts /\ last'.this = Facade)
        => /\ last'.obj \notin DOMAIN heap
           /\ heap'[last'.obj] =
                [selectorStr |-> Rendered(Token(last'.op, last'.value)),
                 order |-> Rank(last'.op), isCB |-> TRUE]
     /\ (last'.op \in Parts /\ heap[last'.this].isCB)
        => (last'.out = "ok" <=> ValidAppend(chain[last'.this], last'.op))
    ]_vars

C5_Witness ==
  \E i, j \in DOMAIN heap :
    /\ i < j
    /\ heap[i].isCB /\ heap[j].isCB
    /\ last.this = i /\ last.out = "ok"
    /\ Len(chain[i]) = 2 /\ Len(chain[j]) = 1
    /\ heap[i].selectorStr = RenderAll(chain[i])
    /\ heap[j].selectorStr = RenderAll(chain[j])

\* C6: the facade always has the empty string, order 0 and isCB false, and a
\* fragment call on it never raises.
C6_FacadeUnchanged ==
  /\ heap[Facade] = [selectorStr |-> << >>, order |-> 0, isCB |-> FALSE]
  /\ (last.op \in Parts /\ last.this = Facade) => last.out = "ok"

C6_Witness ==
  /\ last.op = "element" /\ last.this = Facade /\ last.out = "ok"
  /\ \E i \in DOMAIN heap : heap[i].isCB /\ heap[i].order = 6

\* C7: stringify() returns the string the instance held and leaves it with the
\* empty string and order 0; a second stringify() right after returns the empty
\* string.
C7_DestructiveRead ==
  [][/\ last'.op = "stringify"
        => /\ last'.str = heap[last'.this].selectorStr
           /\ Cleared(heap', last'.this)
     /\ (last.op = "stringify" /\ last'.op = "stringify" /\ last'.this = last.this)
        => last'.str = << >>
    ]_vars

C7_Witness ==
  /\ last.op = "stringify"
  /\ last.this # Facade
  /\ heap[last.this].isCB
  /\ last.str = << >>

\* C8: combine returns a new object whose string is the left operand's string,
\* a space, the combinator, a space and the right operand's string (the right
\* one read after the left one was rendered); both operands are left cleared;
\* the string of an object made by combine is the rendering, left to right, of
\* the fragments and combinators that went into it, nested combines included.
C8_Combine ==
  /\ [](\A i \in DOMAIN heap :
          ~heap[i].isCB => heap[i].selectorStr = RenderAll(chain[i]))
  /\ [][last'.op = "combine"
        => /\ last'.obj \notin DOMAIN heap
           /\ last'.obj \in DOMAIN heap'
           /\ heap'[last'.obj].selectorStr =
                heap[last'.s1].selectorStr \o <<" ">> \o last'.value \o <<" ">>
                  \o (IF last'.s2 = last'.s1 THEN << >> ELSE heap[last'.s2].selectorStr)
           /\ Cleared(heap', last'.s1)
           /\ Cleared(heap', last'.s2)
       ]_vars

C8_Witness ==
  /\ last.op = "combine"
  /\ CountPart(chain[last.obj], "combinator") = 2
  /\ heap[last.obj].selectorStr = <<"#", "a", " ", "~", " ", "a", " ", "+", " ">>

\* C9: a fragment call that raises changes no object; the same call made again
\* raises the same error; stringify() after it returns the string held before.
C9_NoPartialMutation ==
  [][/\ (last'.op \in Parts /\ last'.out # "ok")
        => heap' = heap /\ last'.obj = None
     /\ (/\ last.op \in Parts /\ last.out # "ok"
         /\ last'.op = last.op /\ last'.this = last.this /\ last'.value = last.value)
        => last'.out = last.out
     /\ (/\ last.op \in Parts /\ last.out # "ok"
         /\ last'.op = "stringify" /\ last'.this = last.this)
        => last'.str = RenderAll(chain[last.this])
    ]_vars

C9_Witness ==
  /\ last.out = "occurenceError"
  /\ Len(chain[last.this]) = 2
  /\ heap[last.this].selectorStr = RenderAll(chain[last.this])

\* C10: combine and stringify never raise, on any operands in any state; only
\* fragment calls raise.
C10_RenderNeverRaises ==
  /\ last.op \in {"combine", "stringify"} => last.out = "ok"
  /\ last.op = "combine" => last.obj \in DOMAIN heap
  /\ last.out # "ok" => last.op \in Parts

C10_Witness ==
  /\ last.op = "combine"
  /\ last.s1 = last.s2
  /\ heap[last.s1].isCB
  /\ Len(heap[last.obj].selectorStr) > 3
\* C11: a fragment call of rank r on an object whose order is L succeeds exactly
\* when r > L, or r = L and r is 3, 4 or 5; it raises the order error exactly when
\* r < L and the occurrence error exactly when r = L and r is 1, 2 or 6; the
\* value has no part in it.
C11_OutcomeByRank ==
  [][last'.op \in Parts
     => LET r == Rank(last'.op)
            L == heap[last'.this].order
        IN /\ last'.out = "ok" <=> (r > L \/ (r = L /\ r \in {3, 4, 5}))
           /\ last'.out = "orderError" <=> r < L
           /\ last'.out = "occurenceError" <=> (r = L /\ r \in {1, 2, 6})
    ]_vars

C11_Witness ==
  /\ last.op \in RepeatableParts
  /\ last.out = "ok"
  /\ Len(chain[last.obj]) = 2
  /\ chain[last.obj][1].part = last.op
  /\ chain[last.obj][1].value # last.value

\* C12: between two renders the order of an instance never falls: a successful
\* fragment call sets it to the rank of the part, which is at least the order
\* before, and a failed one leaves it; the order is within 0..6, and on an
\* instance made by fragment calls it is 0 only while nothing has been appended
\* since it was made or last rendered.
C12_OrderMonotone ==
  /\ [](\A i \in DOMAIN heap :
          /\ heap[i].order \in 0..6
          /\ heap[i].isCB => (heap[i].order = 0 => chain[i] = << >>))
  /\ [][/\ (last'.op \in Parts /\ last'.out = "ok")
           => /\ heap'[last'.obj].order = Rank(last'.op)
              /\ heap'[last'.obj].order >= heap[last'.this].order
        /\ (last'.op \in Parts /\ last'.out # "ok")
           => heap'[last'.this].order = heap[last'.this].order
        /\ \A i \in DOMAIN heap :
             heap'[i].order < heap[i].order
               => \/ last'.op = "stringify" /\ last'.this = i
                  \/ last'.op = "combine" /\ i \in {last'.s1, last'.s2}
       ]_vars

C12_Witness ==
  /\ last.op \in Parts
  /\ last.out = "ok"
  /\ Len(chain[last.obj]) = 3
  /\ heap[last.obj].order = Rank(last.op)
  /\ Rank(chain[last.obj][1].part) < Rank(chain[last.obj][2].part)
  /\ Rank(chain[last.obj][2].part) = Rank(last.op)
\* C13: a fragment call makes a new object only when its receiver is the facade;
\* on any other object, made by a fragment call or by combine, a successful call
\* appends the rendered part to the receiver's string, sets the receiver's order
\* and returns the receiver.
C13_AppendsInPlace ==
  [][(last'.op \in Parts /\ last'.out = "ok")
     => IF last'.this = Facade
        THEN last'.obj \notin DOMAIN heap
        ELSE /\ last'.obj = last'.this
             /\ DOMAIN heap' = DOMAIN heap
             /\ heap'[last'.this].selectorStr =
                  heap[last'.this].selectorStr
                    \o Rendered(Token(last'.op, last'.value))
             /\ heap'[last'.this].order = Rank(last'.op)
    ]_vars

\* the same statement for receivers made by fragment calls only
C13_AppendsInPlaceOnInstances ==
  [][(last'.op \in Parts /\ last'.out = "ok" /\ heap[last'.this].isCB)
     => /\ last'.obj = last'.this
        /\ DOMAIN heap' = DOMAIN heap
        /\ heap'[last'.this].selectorStr =
             heap[last'.this].selectorStr
               \o Rendered(Token(last'.op, last'.value))
        /\ heap'[last'.this].order = Rank(last'.op)
    ]_vars
\* C14: the object combine returns has order 0 whatever the orders of its
\* operands, it keeps order 0, and a fragment call of any kind on it does not
\* raise.
IsCombined(h, i) == i # Facade /\ ~h[i].isCB

C14_CombinedUnconstrained ==
  /\ [](\A i \in DOMAIN heap : IsCombined(heap, i) => heap[i].order = 0)
  /\ [][/\ last'.op = "combine"
           => IsCombined(heap', last'.obj) /\ heap'[last'.obj].order = 0
        /\ (last'.op \in Parts /\ IsCombined(heap, last'.this))
           => last'.out = "ok"
       ]_vars

C14_Witness ==
  /\ last.op = "element"
  /\ IsCombined(heap, last.this)
  /\ last.out = "ok"
  /\ \E k \in DOMAIN chain[last.this] : chain[last.this][k].part = "pseudoElement"

\* C15: an operand made by fragment calls that has been rendered, with nothing
\* appended since, gives the empty string to combine: on the left the result is
\* " c " followed by the right operand's string; the same instance on both sides
\* gives its string followed by " c ".
Spaced(c) == <<" ">> \o c \o <<" ">>

C15_RenderedOperandEmpty ==
  [][last'.op = "combine"
     => LET a == last'.s1
            b == last'.s2
            res == heap'[last'.obj].selectorStr
        IN /\ (heap[a].isCB /\ chain[a] = << >> /\ a # b)
              => res = Spaced(last'.value) \o heap[b].selectorStr
           /\ (heap[b].isCB /\ chain[b] = << >> /\ a # b)
              => res = heap[a].selectorStr \o Spaced(last'.value)
           /\ a = b => res = heap[a].selectorStr \o Spaced(last'.value)
    ]_vars

C15_Witness ==
  /\ last.op = "combine"
  /\ last.s1 # last.s2
  /\ heap[last.s1].isCB
  /\ heap[last.obj].selectorStr = <<" ", "~", " ", "a", " ", "+", " ">>

\* C16: any object other than the facade, made by a fragment call or by combine,
\* that has been rendered with nothing appended since takes a fragment call of
\* any kind as a new instance does: the call succeeds, no object is made, the
\* call returns the receiver and leaves it holding that part alone, with its
\* rank, which is what the next stringify() on it returns.
C16_ReuseAnyInstance ==
  [][(last'.op \in Parts /\ last'.this # Facade /\ chain[last'.this] = << >>)
     => /\ last'.out = "ok"
        /\ last'.obj = last'.this
        /\ DOMAIN heap' = DOMAIN heap
        /\ heap'[last'.this].selectorStr = Rendered(Token(last'.op, last'.value))
        /\ heap'[last'.this].order = Rank(last'.op)
    ]_vars

\* the same statement for instances made by fragment calls only, where it holds
C16_ReuseAfterRender ==
  [][/\ (last'.op \in Parts /\ heap[last'.this].isCB /\ chain[last'.this] = << >>)
        => /\ last'.out = "ok"
           /\ last'.obj = last'.this
           /\ DOMAIN heap' = DOMAIN heap
           /\ heap'[last'.this] =
                [selectorStr |-> Rendered(Token(last'.op, last'.value)),
                 order |-> Rank(last'.op), isCB |-> TRUE]
     /\ (/\ last.op \in Parts /\ last.out = "ok" /\ Len(chain[last.obj]) = 1
         /\ last'.op = "stringify" /\ last'.this = last.obj)
        => last'.str = Rendered(Token(last.op, last.value))
    ]_vars

C16_Witness ==
  /\ last.op = "element"
  /\ last.out = "ok"
  /\ last.obj = last.this
  /\ chain[last.this] = <<Token("element", <<"a">>)>>
  /\ heap[last.this] = [selectorStr |-> <<"a">>, order |-> 1, isCB |-> TRUE]
====
